---- MODULE Spec2Model ----
(***************************************************************************)
(* Model of the stereo BIN -> JPG/TIF extractor, src/bin2tif/              *)
(* terra_bin2tif.py: the message filter check_message and the conversion   *)
(* routine process_message of class StereoBin2JpgTiff, for one dataset.    *)
(*                                                                         *)
(* The world is the output directory on disk (the four target files), the  *)
(* remote dataset (uploaded files, metadata entries) and the telemetry     *)
(* sink.  Each worker is one consumer of the host runtime: it takes an     *)
(* event, runs check_message on it and, on verdict download, runs          *)
(* process_message.  External collaborators (decoder, image writers, the   *)
(* remote store, the telemetry sink) are taken to succeed; what they       *)
(* return is modelled by what the extractor does with it.  File names,     *)
(* paths and agent names are sequences of tokens, so that endswith is a    *)
(* real suffix test.  Directory creation, byte counts and time stamps are  *)
(* left out: nothing below reads them.                                     *)
(*                                                                         *)
(* check_message is one step.  process_message is a step for each test of  *)
(* a target, a step for each creation (for a TIFF: one that writes the     *)
(* temporary file and one that moves it to the target), a step for each    *)
(* del, one for lines 217-223 and one for lines 226-233, so that the runs  *)
(* of two workers interleave between a test and the write it guards.       *)
(***************************************************************************)
EXTENDS Integers, Sequences, FiniteSets, TLC

\* The number of process_message runs a behaviour may start.
MaxRuns == 2

Workers == {1, 2}
Sides == {"left", "right"}

VARIABLES
    disk,            \* target path -> 0 (no file), -1 (file from before), r (written by run r)
    tmp_tiff,        \* whether the temporary TIFF /home/extractor/<dataset>.tif exists
    uploads,         \* files uploaded to the dataset; a file's id is its record
    md,              \* metadata entries attached to the remote dataset, in order
    influx,          \* telemetry entries logged
    nruns,           \* process_message runs started so far
    parallel,        \* whether the host runtime handles events concurrently
    pc,              \* worker -> position in check_message / process_message
    force_overwrite, \* self.force_overwrite, set when the extractor starts (line 60)
    verdict,         \* worker -> what check_message returned for the last event, and at
                     \* which line
    local_paths,     \* worker -> resource['local_paths'] of the run
    frame,           \* worker -> local variables of process_message
    obs,             \* worker -> the world and prev as they were when the run began,
                     \* decode counts
    prev,            \* summary of the last run that ended
    writes,          \* target path -> the writes to it, in order: run, whether the run
                     \* uploaded the file
    completed        \* some run wrote its completion record

vars == << disk, tmp_tiff, uploads, md, influx, nruns, parallel, pc, force_overwrite, verdict,
           local_paths, frame, obs, prev, writes, completed >>

-----------------------------------------------------------------------------
\* Strings as token sequences

endswith(s, suffix) ==
    /\ Len(s) >= Len(suffix)
    /\ SubSeq(s, Len(s) - Len(suffix) + 1, Len(s)) = suffix

SUFFIX_LEFT == << "_left.bin" >>
SUFFIX_RIGHT == << "_right.bin" >>
SUFFIX_METADATA == << "_dataset_metadata.json" >>
MEASUREMENT_KEY == "lemnatec_measurement_metadata"

\* self.extractor_info['name']
extractor_name == << "stereoTop.bin2tif" >>

\* The four target paths of the dataset.
out_dir == << "out_dir/" >>
lbase == out_dir \o << "ds_left." >>
rbase == out_dir \o << "ds_right." >>
left_jpg == lbase \o << "jpg" >>
right_jpg == rbase \o << "jpg" >>
left_tiff == lbase \o << "tif" >>
right_tiff == rbase \o << "tif" >>
Targets == { left_jpg, left_tiff, right_jpg, right_tiff }

jpg_of(side) == IF side = "left" THEN left_jpg ELSE right_jpg
tiff_of(side) == IF side = "left" THEN left_tiff ELSE right_tiff

isfile(dk, path) == dk[path] # 0

-----------------------------------------------------------------------------
\* Metadata entries of the remote dataset

\* terrautils.extractors.build_metadata: the agent names this extractor by URL
build_metadata(file_ids) ==
    [ agent |-> [ name |-> << "host/api/extractors/" >> \o extractor_name ],
      content |-> [ files_created |-> file_ids ] ]

\* The measurement metadata someone else attached to the dataset.
measurement_entry ==
    [ agent |-> [ name |-> << "host/api/extractors/", "metadata.loader" >> ],
      content |-> [ lemnatec_measurement_metadata |-> << >> ] ]

\* An entry by a user (its agent has no name) with other content.
user_entry ==
    [ agent |-> [ user_id |-> << "user" >> ],
      content |-> [ note |-> << >> ] ]

\* m['agent']['name'].endswith(self.extractor_info['name'])
by_this_extractor(m) ==
    /\ "agent" \in DOMAIN m
    /\ "name" \in DOMAIN m.agent
    /\ endswith(m.agent.name, extractor_name)

\* 'content' in m and 'lemnatec_measurement_metadata' in m['content']
has_measurement(m) ==
    /\ "content" \in DOMAIN m
    /\ MEASUREMENT_KEY \in DOMAIN m.content

-----------------------------------------------------------------------------
\* check_message

CheckResult(v, line) == [ verdict |-> v, line |-> line ]

\* the loop over resource['files']: a name that ends in _left.bin is never
\* tested for _right.bin (elif)
found_left(files) ==
    \E i \in 1..Len(files) :
        /\ "filename" \in DOMAIN files[i]
        /\ endswith(files[i].filename, SUFFIX_LEFT)

found_right(files) ==
    \E i \in 1..Len(files) :
        /\ "filename" \in DOMAIN files[i]
        /\ ~endswith(files[i].filename, SUFFIX_LEFT)
        /\ endswith(files[i].filename, SUFFIX_RIGHT)

outputs_exist(dk) ==
    /\ isfile(dk, left_jpg) /\ isfile(dk, right_jpg)
    /\ isfile(dk, left_tiff) /\ isfile(dk, right_tiff)

\* the scan stops at the first measurement entry
RECURSIVE scan_metadata_until_found(_, _, _, _)
scan_metadata_until_found(entries, i, found_meta, overwrite) ==
    IF i > Len(entries) \/ found_meta
    THEN [ skip |-> FALSE, found_meta |-> found_meta ]
    ELSE IF ~overwrite /\ by_this_extractor(entries[i])
    THEN [ skip |-> TRUE, found_meta |-> found_meta ]
    ELSE scan_metadata_until_found(entries, i + 1,
                       found_meta \/ has_measurement(entries[i]), overwrite)

\* the scan skips on an entry of this extractor whatever the flag
RECURSIVE scan_metadata_unguarded(_, _, _, _)
scan_metadata_unguarded(entries, i, found_meta, overwrite) ==
    IF i > Len(entries)
    THEN [ skip |-> FALSE, found_meta |-> found_meta ]
    ELSE IF by_this_extractor(entries[i])
    THEN [ skip |-> TRUE, found_meta |-> found_meta ]
    ELSE scan_metadata_unguarded(entries, i + 1,
                       found_meta \/ has_measurement(entries[i]), overwrite)

\* the loop over the downloaded metadata, entry i onwards: it returns from
\* inside the loop at the first entry of this extractor, unless overwrite
RECURSIVE scan_metadata(_, _, _, _)
scan_metadata(entries, i, found_meta, overwrite) ==
    IF i > Len(entries)
    THEN [ skip |-> FALSE, found_meta |-> found_meta ]
    ELSE IF ~overwrite /\ by_this_extractor(entries[i])
    THEN [ skip |-> TRUE, found_meta |-> found_meta ]
    ELSE scan_metadata(entries, i + 1,
                       found_meta \/ has_measurement(entries[i]), overwrite)

\* the flag tests written the wrong way round
check_message_inverted(overwrite, is_latest_file, files, dk, entries) ==
    IF ~is_latest_file THEN CheckResult("ignore", 71)
    ELSE IF ~(found_left(files) /\ found_right(files)) THEN CheckResult("ignore", 83)
    ELSE IF overwrite /\ outputs_exist(dk) THEN CheckResult("ignore", 95)
    ELSE LET r == scan_metadata(entries, 1, FALSE, ~overwrite) IN
         IF r.skip THEN CheckResult("ignore", 106)
         ELSE IF found_left(files) /\ found_right(files) /\ r.found_meta
         THEN CheckResult("download", 111)
         ELSE CheckResult("ignore", 113)

\* check_message(resource) of an extractor whose force_overwrite is `overwrite`,
\* with the disk as dk and the dataset's metadata as entries; line is the
\* source line of the return statement taken
check_message(overwrite, is_latest_file, files, dk, entries) ==
    IF ~is_latest_file THEN CheckResult("ignore", 71)
    ELSE IF ~(found_left(files) /\ found_right(files)) THEN CheckResult("ignore", 83)
    ELSE IF ~overwrite /\ outputs_exist(dk) THEN CheckResult("ignore", 95)
    ELSE LET r == scan_metadata(entries, 1, FALSE, overwrite) IN
         IF r.skip THEN CheckResult("ignore", 106)
         ELSE IF found_left(files) /\ found_right(files) /\ r.found_meta
         THEN CheckResult("download", 111)
         ELSE CheckResult("ignore", 113)

\* The file lists an event may carry.
FileLists ==
    { << [ filename |-> << "a", "_left.bin" >> ], [ filename |-> << "a", "_right.bin" >> ] >>,
      << [ filename |-> << "a", "_right.bin" >> ],
         [ filename |-> << "a", "_dataset_metadata.json" >> ],
         [ filename |-> << "a", "_left.bin" >> ] >>,
      << [ filename |-> << "a", "_left.bin" >> ] >>,
      << [ id |-> << "f1" >> ], [ filename |-> << "a", "_right.bin" >> ] >>,
      << [ filename |-> << "a", "_left.bin", ".bak" >> ],
         [ filename |-> << "a", "_right.bin" >> ] >>,
      << >> }

-----------------------------------------------------------------------------
\* process_message: resolving the inputs (lines 138-151)

path_left_bin == << "/tmp/", "a", "_left.bin" >>
path_right_bin == << "/tmp/", "a", "_right.bin" >>
path_metadata == << "/tmp/", "a", "_dataset_metadata.json" >>
path_metadata_bare == << "/tmp/", "b", "_dataset_metadata.json" >>

\* bin2tiff.load_json(fname): the documents of a metadata sidecar
load_json(fname) ==
    IF fname = path_metadata THEN << user_entry, measurement_entry >>
    ELSE << user_entry >>

\* bin2tiff.lower_keys(m['content']); the keys here are lower case already
lower_keys(content) == content

\* the loop over the documents of one sidecar, document i onwards: the first
\* one holding the measurement key, << >> for none
RECURSIVE first_measurement(_, _)
first_measurement(docs, i) ==
    IF i > Len(docs) THEN << >>
    ELSE IF has_measurement(docs[i]) THEN << lower_keys(docs[i].content) >>
    ELSE first_measurement(docs, i + 1)

\* None is << >>, a value x is << x >>
NoInputs == [ img_left |-> << >>, img_right |-> << >>, metadata |-> << >> ]

\* the loop over resource['local_paths'], path i onwards
RECURSIVE resolve_inputs(_, _, _)
resolve_inputs(paths, i, acc) ==
    IF i > Len(paths) THEN acc
    ELSE LET fname == paths[i] IN
         IF endswith(fname, SUFFIX_METADATA)
         THEN LET found == first_measurement(load_json(fname), 1) IN
              resolve_inputs(paths, i + 1,
                  IF found = << >> THEN acc ELSE [ acc EXCEPT !.metadata = found ])
         ELSE IF endswith(fname, SUFFIX_LEFT)
         THEN resolve_inputs(paths, i + 1, [ acc EXCEPT !.img_left = << fname >> ])
         ELSE IF endswith(fname, SUFFIX_RIGHT)
         THEN resolve_inputs(paths, i + 1, [ acc EXCEPT !.img_right = << fname >> ])
         ELSE resolve_inputs(paths, i + 1, acc)

\* the test of line 150 left out
inputs_missing_never(inputs) == FALSE

\* None in [img_left, img_right, metadata]
inputs_missing(inputs) ==
    \/ inputs.img_left = << >>
    \/ inputs.img_right = << >>
    \/ inputs.metadata = << >>

\* The local paths the host may hand to a run.
LocalPathChoices ==
    { << path_metadata, path_left_bin, path_right_bin >>,
      << path_left_bin, path_right_bin, path_metadata, left_tiff >>,
      << path_metadata, path_left_bin >>,
      << path_right_bin, path_metadata >>,
      << path_metadata_bare, path_left_bin, path_right_bin >>,
      << path_left_bin, path_right_bin >> }

-----------------------------------------------------------------------------
\* process_message: helpers of the conversion steps

contains(seq, x) == \E i \in 1..Len(seq) : seq[i] = x

\* the existence test left out
must_create_always(dk, path, overwrite) == TRUE

\* (not os.path.isfile(path)) or self.force_overwrite
must_create(dk, path, overwrite) == (~isfile(dk, path)) \/ overwrite

\* the identifier the remote store gives the file that run uploads from path
file_id(path, run) == [ path |-> path, by |-> run ]

\* an upload that skips a path the dataset already holds
upload_once(files, path, run) ==
    IF \E f \in files : f.path = path THEN files ELSE files \cup { file_id(path, run) }

\* pyclowder.files.upload_to_dataset: the dataset's files after the upload
upload_to_dataset(files, path, run) == files \cup { file_id(path, run) }

\* path not in resource['local_paths']
should_upload(path, paths) == ~contains(paths, path)

\* files_created of the entries, one list after the other
RECURSIVE files_created_of(_, _)
files_created_of(entries, i) ==
    IF i > Len(entries) THEN << >>
    ELSE (IF "files_created" \in DOMAIN entries[i].content
          THEN entries[i].content.files_created ELSE << >>)
         \o files_created_of(entries, i + 1)

\* pyclowder.datasets.download_metadata(..., extractor name): the entries of
\* this extractor
download_metadata(entries) == SelectSeq(entries, by_this_extractor)

\* the removal left out
remove_metadata_none(entries) == entries

\* pyclowder.datasets.remove_metadata(..., extractor name): what is left
remove_metadata(entries) == SelectSeq(entries, LAMBDA m : ~by_this_extractor(m))

NoError == [ type |-> "", line |-> 0 ]

NoFrame ==
    [ created |-> 0, img_left |-> << >>, img_right |-> << >>, metadata |-> << >>,
      uploaded_file_ids |-> << >>, skipped_jpg |-> FALSE,
      image |-> [ s \in Sides |-> FALSE ], side |-> "left", error |-> NoError ]

NoDisk == [ t \in Targets |-> 0 ]

NoPrev == [ valid |-> FALSE, resolved |-> FALSE, done |-> FALSE ]

NoObs ==
    [ run |-> 0, decodes |-> [ s \in Sides |-> 0 ], disk0 |-> NoDisk, md0 |-> << >>,
      uploads0 |-> { }, influx0 |-> 0, prev0 |-> NoPrev ]

-----------------------------------------------------------------------------
\* The state machine

\* A host runtime that is not parallel has one consumer, worker 1.
CanStep(w) == parallel \/ w = 1

\* The dataset as it may be found: the measurement metadata attached or not,
\* and possibly a completion record of an earlier run that uploaded the left
\* JPG, before or after the measurement metadata.
InitialRemote ==
    { [ md |-> << >>, uploads |-> { } ],
      [ md |-> << measurement_entry >>, uploads |-> { } ],
      [ md |-> << user_entry, measurement_entry >>, uploads |-> { } ],
      [ md |-> << measurement_entry, build_metadata(<< file_id(left_jpg, -1) >>) >>,
        uploads |-> { file_id(left_jpg, -1) } ],
      [ md |-> << build_metadata(<< file_id(left_jpg, -1) >>), measurement_entry >>,
        uploads |-> { file_id(left_jpg, -1) } ],
      [ md |-> << build_metadata(<< file_id(left_jpg, -1) >>) >>,
        uploads |-> { file_id(left_jpg, -1) } ] }

InitWorkers ==
    /\ tmp_tiff = FALSE
    /\ influx = << >>
    /\ nruns = 0
    /\ pc = [ w \in Workers |-> "idle" ]
    /\ force_overwrite \in BOOLEAN
    /\ verdict = [ w \in Workers |-> CheckResult("none", 0) ]
    /\ local_paths = [ w \in Workers |-> << >> ]
    /\ frame = [ w \in Workers |-> NoFrame ]
    /\ obs = [ w \in Workers |-> NoObs ]
    /\ prev = NoPrev
    /\ writes = [ t \in Targets |-> << >> ]
    /\ completed = FALSE

Init ==
    /\ disk \in [ Targets -> { 0, -1 } ]
    /\ \E r \in InitialRemote : md = r.md /\ uploads = r.uploads
    /\ parallel = FALSE
    /\ InitWorkers

\* Two consumers on a dataset whose raw files and metadata were just uploaded.
InitParallel ==
    /\ disk = NoDisk
    /\ md = << measurement_entry >>
    /\ uploads = { }
    /\ parallel = TRUE
    /\ InitWorkers

\* The host delivers an event to an idle worker, which runs check_message.
HandleCheck(w) ==
    /\ pc[w] = "idle"
    /\ CanStep(w)
    /\ nruns < MaxRuns
    /\ \E is_latest_file \in BOOLEAN, files \in FileLists :
          LET r == check_message(force_overwrite, is_latest_file, files, disk, md) IN
          /\ verdict' = [ verdict EXCEPT ![w] = r ]
          /\ pc' = [ pc EXCEPT ![w] = IF r.verdict = "download" THEN "download" ELSE "idle" ]
    /\ UNCHANGED << disk, tmp_tiff, uploads, md, influx, nruns, parallel, force_overwrite,
                    local_paths, frame, obs, prev, writes, completed >>

\* process_message, lines 116-161: the host has downloaded the files; the
\* inputs are resolved or the run raises ValueError.
process_begin(w) ==
    /\ pc[w] = "download"
    /\ CanStep(w)
    /\ nruns < MaxRuns
    /\ \E paths \in LocalPathChoices :
          LET inputs == resolve_inputs(paths, 1, NoInputs)
              missing == inputs_missing(inputs) IN
          /\ local_paths' = [ local_paths EXCEPT ![w] = paths ]
          /\ frame' = [ frame EXCEPT ![w] =
                 [ NoFrame EXCEPT !.img_left = inputs.img_left,
                                  !.img_right = inputs.img_right,
                                  !.metadata = inputs.metadata,
                                  !.error = IF missing
                                            THEN [ type |-> "ValueError", line |-> 151 ]
                                            ELSE NoError ] ]
          /\ pc' = [ pc EXCEPT ![w] = IF missing THEN "raised" ELSE "jpg_test" ]
    /\ nruns' = nruns + 1
    /\ obs' = [ obs EXCEPT ![w] =
           [ NoObs EXCEPT !.run = nruns + 1, !.disk0 = disk, !.md0 = md,
                          !.uploads0 = uploads, !.influx0 = Len(influx),
                          !.prev0 = prev ] ]
    /\ UNCHANGED << disk, tmp_tiff, uploads, md, influx, parallel, force_overwrite, verdict, prev,
                    writes, completed >>

\* lines 162 and 172-173 (left), 190 and 199-200 (right)
jpg_test(w) ==
    /\ pc[w] = "jpg_test"
    /\ CanStep(w)
    /\ IF must_create(disk, jpg_of(frame[w].side), force_overwrite)
       THEN /\ pc' = [ pc EXCEPT ![w] = "jpg_make" ]
            /\ UNCHANGED frame
       ELSE /\ pc' = [ pc EXCEPT ![w] = "tiff_test" ]
            /\ frame' = [ frame EXCEPT ![w].skipped_jpg = TRUE ]
    /\ UNCHANGED << disk, tmp_tiff, uploads, md, influx, nruns, parallel, force_overwrite, verdict,
                    local_paths, obs, prev, writes, completed >>

\* bin2tiff.process_image: the side's image is bound to a fresh decode
decoded(f) == [ f EXCEPT !.image[f.side] = TRUE ]

\* the artifact is on disk at path; upload, created += 1 (lines 165-171, 180-186)
store_artifact(w, f, path) ==
    LET run == obs[w].run
        up == should_upload(path, local_paths[w])
        files == IF up THEN upload_to_dataset(uploads, path, run) ELSE uploads IN
    /\ disk' = [ disk EXCEPT ![path] = run ]
    /\ writes' = [ writes EXCEPT ![path] =
           Append(@, [ run |-> run, uploaded |-> up ]) ]
    /\ uploads' = files
    /\ frame' = [ frame EXCEPT ![w] =
           [ f EXCEPT !.created = @ + 1,
                      !.uploaded_file_ids = IF up THEN Append(@, file_id(path, run)) ELSE @ ] ]

\* lines 163-171 (left), 191-198 (right)
jpg_make(w) ==
    /\ pc[w] = "jpg_make"
    /\ CanStep(w)
    /\ store_artifact(w, decoded(frame[w]), jpg_of(frame[w].side))
    /\ obs' = [ obs EXCEPT ![w].decodes[frame[w].side] = @ + 1 ]
    /\ pc' = [ pc EXCEPT ![w] = "tiff_test" ]
    /\ UNCHANGED << tmp_tiff, md, influx, nruns, parallel, force_overwrite, verdict,
                    local_paths, prev, completed >>

\* line 175 (left), 202 (right)
tiff_test(w) ==
    /\ pc[w] = "tiff_test"
    /\ CanStep(w)
    /\ pc' = [ pc EXCEPT ![w] =
           IF must_create(disk, tiff_of(frame[w].side), force_overwrite)
           THEN "tiff_make" ELSE "del" ]
    /\ UNCHANGED << disk, tmp_tiff, uploads, md, influx, nruns, parallel, force_overwrite, verdict,
                    local_paths, frame, obs, prev, writes, completed >>

\* the TIFF step decodes whether or not the JPEG step ran
redecode_always(f) == TRUE

\* if skipped_jpg: decode for the TIFF
redecode(f) == f.skipped_jpg

\* lines 176-180 (left), 203-206 (right): the image the JPEG step left, or a
\* fresh decode if that step was skipped, is written to the temporary TIFF
tiff_make(w) ==
    /\ pc[w] = "tiff_make"
    /\ CanStep(w)
    /\ LET f == IF redecode(frame[w]) THEN decoded(frame[w]) ELSE frame[w] IN
       IF f.image[f.side]
       THEN /\ frame' = [ frame EXCEPT ![w] = f ]
            /\ tmp_tiff' = TRUE
            /\ pc' = [ pc EXCEPT ![w] = "tiff_move" ]
       ELSE /\ frame' = [ frame EXCEPT ![w].error =
                   [ type |-> "UnboundLocalError",
                     line |-> IF f.side = "left" THEN 180 ELSE 206 ] ]
            /\ pc' = [ pc EXCEPT ![w] = "raised" ]
            /\ UNCHANGED tmp_tiff
    /\ obs' = [ obs EXCEPT ![w].decodes[frame[w].side] =
           IF redecode(frame[w]) THEN @ + 1 ELSE @ ]
    /\ UNCHANGED << disk, uploads, md, influx, nruns, parallel, force_overwrite, verdict,
                    local_paths, prev, writes, completed >>

\* lines 181-186 (left), 207-212 (right): shutil.move puts the temporary TIFF
\* at the target, and raises if the temporary file is not there
tiff_move(w) ==
    /\ pc[w] = "tiff_move"
    /\ CanStep(w)
    /\ IF tmp_tiff
       THEN /\ store_artifact(w, frame[w], tiff_of(frame[w].side))
            /\ tmp_tiff' = FALSE
            /\ pc' = [ pc EXCEPT ![w] = "del" ]
       ELSE /\ frame' = [ frame EXCEPT ![w].error =
                   [ type |-> "IOError",
                     line |-> IF frame[w].side = "left" THEN 181 ELSE 207 ] ]
            /\ pc' = [ pc EXCEPT ![w] = "raised" ]
            /\ UNCHANGED << disk, tmp_tiff, uploads, writes >>
    /\ UNCHANGED << md, influx, nruns, parallel, force_overwrite, verdict, local_paths,
                    obs, prev, completed >>

\* del left_image (line 187), then skipped_jpg = False (189); del right_image
\* (213): del of a name that was never bound raises UnboundLocalError
del_image(w) ==
    /\ pc[w] = "del"
    /\ CanStep(w)
    /\ LET f == frame[w] IN
       IF f.image[f.side]
       THEN /\ frame' = [ frame EXCEPT ![w] =
                   IF f.side = "left"
                   THEN [ f EXCEPT !.image["left"] = FALSE, !.side = "right",
                                   !.skipped_jpg = FALSE ]
                   ELSE [ f EXCEPT !.image["right"] = FALSE ] ]
            /\ pc' = [ pc EXCEPT ![w] = IF f.side = "left" THEN "jpg_test" ELSE "fold" ]
       ELSE /\ frame' = [ frame EXCEPT ![w].error =
                   [ type |-> "UnboundLocalError",
                     line |-> IF f.side = "left" THEN 187 ELSE 213 ] ]
            /\ pc' = [ pc EXCEPT ![w] = "raised" ]
    /\ UNCHANGED << disk, tmp_tiff, uploads, md, influx, nruns, parallel, force_overwrite, verdict,
                    local_paths, obs, prev, writes, completed >>

\* lines 217-223: the prior records of this extractor are folded into the list
\* and removed
fold_prior(w) ==
    /\ pc[w] = "fold"
    /\ CanStep(w)
    /\ LET mine == SelectSeq(download_metadata(md), by_this_extractor) IN
       /\ frame' = [ frame EXCEPT ![w].uploaded_file_ids = @ \o files_created_of(mine, 1) ]
       /\ md' = IF mine = << >> THEN md ELSE remove_metadata(md)
    /\ pc' = [ pc EXCEPT ![w] = "record" ]
    /\ UNCHANGED << disk, tmp_tiff, uploads, influx, nruns, parallel, force_overwrite, verdict,
                    local_paths, obs, prev, writes, completed >>

\* lines 226-233: the completion record and the telemetry entry
write_record(w) ==
    /\ pc[w] = "record"
    /\ CanStep(w)
    /\ md' = Append(md, build_metadata(frame[w].uploaded_file_ids))
    /\ influx' = Append(influx, [ run |-> obs[w].run, created |-> frame[w].created ])
    /\ completed' = TRUE
    /\ pc' = [ pc EXCEPT ![w] = "done" ]
    /\ UNCHANGED << disk, tmp_tiff, uploads, nruns, parallel, force_overwrite, verdict, local_paths,
                    frame, obs, prev, writes >>

\* The run has returned or raised; the worker is free for the next event.
run_ends(w) ==
    /\ pc[w] \in { "done", "raised" }
    /\ CanStep(w)
    /\ prev' = [ valid |-> TRUE,
                 resolved |-> frame[w].error.type # "ValueError", done |-> pc[w] = "done" ]
    /\ pc' = [ pc EXCEPT ![w] = "idle" ]
    /\ frame' = [ frame EXCEPT ![w] = NoFrame ]
    /\ obs' = [ obs EXCEPT ![w] = NoObs ]
    /\ local_paths' = [ local_paths EXCEPT ![w] = << >> ]
    /\ verdict' = [ verdict EXCEPT ![w] = CheckResult("none", 0) ]
    /\ UNCHANGED << disk, tmp_tiff, uploads, md, influx, nruns, parallel, force_overwrite, writes,
                    completed >>

Next ==
    \E w \in Workers :
        \/ HandleCheck(w)
        \/ process_begin(w)
        \/ jpg_test(w)
        \/ jpg_make(w)
        \/ tiff_test(w)
        \/ tiff_make(w)
        \/ tiff_move(w)
        \/ del_image(w)
        \/ fold_prior(w)
        \/ write_record(w)
        \/ run_ends(w)

\* One consumer: events are handled one after the other.
Spec == Init /\ [][Next]_vars

\* Two consumers: events for the dataset may be handled at the same time.
SpecParallel == InitParallel /\ [][Next]_vars

-----------------------------------------------------------------------------
\* What the properties speak of

Running(w) == pc[w] \notin { "idle", "download" }

\* the targets the run of worker w has written, the files it has uploaded
made(w) == { t \in Targets : \E i \in 1..Len(writes[t]) : writes[t][i].run = obs[w].run }
uploaded_by(w) == { u \in uploads : u.by = obs[w].run }

is_completion_record(m) ==
    /\ by_this_extractor(m)
    /\ "content" \in DOMAIN m
    /\ "files_created" \in DOMAIN m.content

completion_records(entries) == SelectSeq(entries, is_completion_record)

\* when the filter is to accept an event, said without the order of its tests
ShouldDownload(overwrite, is_latest_file, files, dk, entries) ==
    /\ is_latest_file
    /\ \E i \in 1..Len(files) :
          "filename" \in DOMAIN files[i] /\ endswith(files[i].filename, SUFFIX_LEFT)
    /\ \E i \in 1..Len(files) :
          "filename" \in DOMAIN files[i] /\ endswith(files[i].filename, SUFFIX_RIGHT)
    /\ \E i \in 1..Len(entries) :
          "content" \in DOMAIN entries[i] /\ MEASUREMENT_KEY \in DOMAIN entries[i].content
    /\ \/ overwrite
       \/ /\ \E t \in Targets : dk[t] = 0
          /\ \A i \in 1..Len(entries) : ~by_this_extractor(entries[i])

\* C1: check_message returns download exactly when the event is the latest
\* version, carries a _left.bin and a _right.bin file name, some metadata entry
\* holds the measurement key and, unless overwrite, not all four outputs exist
\* and no entry is by this extractor; otherwise it returns ignore.
C1_FilterVerdict ==
    \A overwrite \in BOOLEAN, is_latest_file \in BOOLEAN, files \in FileLists :
        check_message(overwrite, is_latest_file, files, disk, md).verdict =
            IF ShouldDownload(overwrite, is_latest_file, files, disk, md)
            THEN "download" ELSE "ignore"

\* Without overwrite an event was ignored for a completion record that comes
\* after the measurement entry, some output missing.
C1_Witness ==
    \E w \in Workers :
        /\ pc[w] = "idle" /\ verdict[w] = CheckResult("ignore", 106)
        /\ ~force_overwrite
        /\ \E t \in Targets : disk[t] = 0
        /\ Len(md) = 2 /\ has_measurement(md[1]) /\ is_completion_record(md[2])

\* the metadata with its completion records taken out, or one put in front or behind
RecordVariants(entries) ==
    { entries,
      SelectSeq(entries, LAMBDA m : ~is_completion_record(m)),
      << build_metadata(<< >>) >> \o entries,
      entries \o << build_metadata(<< >>) >> }

\* C2: with overwrite set, check_message returns neither at the outputs test
\* (line 95) nor at the completion-record test (line 106); an event that is the
\* latest version and has both BIN files gets its verdict from the metadata
\* content (lines 111, 113); and the verdict is the same whichever outputs
\* exist and whether or not a completion record is attached.
C2_OverwriteIgnoresMarkers ==
    force_overwrite =>
        \A is_latest_file \in BOOLEAN, files \in FileLists :
            LET r == check_message(force_overwrite, is_latest_file, files, disk, md) IN
            /\ r.line \notin { 95, 106 }
            /\ (is_latest_file /\ found_left(files) /\ found_right(files))
                   => r.line \in { 111, 113 }
            /\ \A dk \in [ Targets -> { 0, -1 } ], entries \in RecordVariants(md) :
                   check_message(force_overwrite, is_latest_file, files, dk, entries).verdict
                       = r.verdict

\* With overwrite set, an event was accepted although all four outputs exist
\* and a completion record is attached.
C2_Witness ==
    \E w \in Workers :
        /\ pc[w] = "download" /\ verdict[w] = CheckResult("download", 111)
        /\ force_overwrite
        /\ outputs_exist(disk)
        /\ completion_records(md) # << >>

\* C8: once a run has written its completion record, check_message without
\* overwrite returns ignore for every event of the dataset.
C8_NoReprocessing ==
    completed =>
        \A is_latest_file \in BOOLEAN, files \in FileLists :
            check_message(FALSE, is_latest_file, files, disk, md).verdict = "ignore"

\* After a completed run the worker took a further event and ignored it for
\* the outputs on disk.
C8_Witness ==
    \E w \in Workers :
        /\ completed /\ prev.done
        /\ ~force_overwrite
        /\ pc[w] = "idle" /\ verdict[w] = CheckResult("ignore", 95)

-----------------------------------------------------------------------------
\* process_message, one event at a time

TargetOrder == << left_jpg, left_tiff, right_jpg, right_tiff >>

\* what the local paths offer, said without the loop that resolves them
HasLeftBin(paths) == \E i \in 1..Len(paths) : endswith(paths[i], SUFFIX_LEFT)
HasRightBin(paths) == \E i \in 1..Len(paths) : endswith(paths[i], SUFFIX_RIGHT)
HasMeasurementSidecar(paths) ==
    \E i \in 1..Len(paths) :
        /\ endswith(paths[i], SUFFIX_METADATA)
        /\ \E j \in 1..Len(load_json(paths[i])) : has_measurement(load_json(paths[i])[j])
Resolvable(paths) == HasLeftBin(paths) /\ HasRightBin(paths) /\ HasMeasurementSidecar(paths)

\* the targets missing when the run of worker w began
missing_at_start(w) == { t \in Targets : obs[w].disk0[t] = 0 }

\* the identifiers of the uploads a run makes that creates the targets in
\* `creating`, in the order of the conversion steps
RECURSIVE new_ids(_, _, _)
new_ids(w, creating, i) ==
    IF i > Len(TargetOrder) THEN << >>
    ELSE (IF TargetOrder[i] \in creating /\ ~contains(local_paths[w], TargetOrder[i])
          THEN << file_id(TargetOrder[i], obs[w].run) >> ELSE << >>)
         \o new_ids(w, creating, i + 1)

\* C3: a run whose three inputs are resolved reaches its end and writes a
\* completion record, whichever targets existed before and whatever the
\* overwrite flag: it never raises.
C3_ResolvedRunCompletes ==
    \A w \in Workers :
        (Running(w) /\ Resolvable(local_paths[w])) =>
            /\ pc[w] # "raised"
            /\ pc[w] = "done" =>
                   (md # << >> /\ md[Len(md)] = build_metadata(frame[w].uploaded_file_ids))

\* C4: a run without overwrite that begins after a run without overwrite on
\* the dataset has completed creates no artifact and uploads no file.
C4_SecondRunCreatesNothing ==
    \A w \in Workers :
        (Running(w) /\ ~force_overwrite /\ obs[w].prev0.done) =>
            /\ made(w) = { }
            /\ uploaded_by(w) = { }
            /\ frame[w].created = 0

\* A run without overwrite that began after a completed run has gone through
\* its conversion steps for the left side.
C4_Witness ==
    \E w \in Workers :
        /\ ~force_overwrite /\ obs[w].prev0.done
        /\ Resolvable(local_paths[w])
        /\ pc[w] \in { "del", "raised" }
        /\ outputs_exist(obs[w].disk0)

\* the preconditions of C5 for the run of worker w, which has ended
C5_Case(w) ==
    /\ pc[w] \in { "done", "raised" }
    /\ ~force_overwrite
    /\ Resolvable(local_paths[w])
    /\ completion_records(obs[w].md0) = << >>
    /\ \A t \in Targets : ~contains(local_paths[w], t)

\* C5: such a run creates as many artifacts as targets were missing when it
\* began, uploads as many files, and writes one completion record that lists
\* exactly the identifiers of those uploads.
C5_CreatesExactlyTheMissing ==
    \A w \in Workers :
        C5_Case(w) =>
            /\ pc[w] = "done"
            /\ made(w) = missing_at_start(w)
            /\ frame[w].created = Cardinality(missing_at_start(w))
            /\ Cardinality(uploaded_by(w)) = Cardinality(missing_at_start(w))
            /\ completion_records(md) =
                   << build_metadata(new_ids(w, missing_at_start(w), 1)) >>

\* the case of C6: a run with overwrite has ended normally after a completed run
C6_Case(w) == pc[w] = "done" /\ force_overwrite /\ obs[w].prev0.done

\* what C6 says of such a run but for the number of uploads
C6_Common(w) ==
    /\ made(w) = Targets
    /\ frame[w].created = 4
    /\ completion_records(obs[w].md0) # << >>
    /\ completion_records(md) =
           << build_metadata(new_ids(w, Targets, 1) \o
                             files_created_of(completion_records(obs[w].md0), 1)) >>
    /\ Len(influx) = obs[w].influx0 + 1

\* C6 as claimed: the re-run with overwrite creates the four artifacts again,
\* uploads four new files, removes the prior completion record and writes one
\* that lists the new identifiers followed by those of the prior record.
C6_RerunUploadsFour ==
    \A w \in Workers :
        C6_Case(w) => (C6_Common(w) /\ Cardinality(uploaded_by(w)) = 4)

\* C6 as amended: the same, with one new file uploaded for each target that is
\* not among the resource's local paths (four when none is).
C6_RerunUploadsTargetsNotLocal ==
    \A w \in Workers :
        C6_Case(w) =>
            /\ C6_Common(w)
            /\ uploaded_by(w) =
                   { file_id(t, obs[w].run) :
                        t \in { x \in Targets : ~contains(local_paths[w], x) } }

\* A re-run with overwrite has ended after a completed run, with the left TIFF
\* among its local paths.
C6_Witness ==
    \E w \in Workers :
        /\ C6_Case(w)
        /\ contains(local_paths[w], left_tiff)
        /\ Cardinality(uploaded_by(w)) = 3

\* C7: a run that cannot resolve the left binary, the right binary or a
\* sidecar entry with the measurement key raises ValueError at line 151, having
\* decoded, written and uploaded nothing, with the dataset's metadata, the disk
\* and the telemetry as they were when it began.
C7_MissingInputFailsFast ==
    \A w \in Workers :
        (Running(w) /\ ~Resolvable(local_paths[w])) =>
            /\ pc[w] = "raised"
            /\ frame[w].error = [ type |-> "ValueError", line |-> 151 ]
            /\ \A s \in Sides : obs[w].decodes[s] = 0
            /\ made(w) = { }
            /\ frame[w].created = 0
            /\ uploaded_by(w) = { }
            /\ disk = obs[w].disk0
            /\ uploads = obs[w].uploads0
            /\ md = obs[w].md0
            /\ Len(influx) = obs[w].influx0

\* A run has raised for a sidecar without the measurement key, both binaries
\* being there and a target missing.
C7_Witness ==
    \E w \in Workers :
        /\ pc[w] = "raised"
        /\ HasLeftBin(local_paths[w]) /\ HasRightBin(local_paths[w])
        /\ ~HasMeasurementSidecar(local_paths[w])
        /\ \E i \in 1..Len(local_paths[w]) : endswith(local_paths[w][i], SUFFIX_METADATA)
        /\ missing_at_start(w) # { }

side_targets(s) == { jpg_of(s), tiff_of(s) }

\* C10: in a run each side is decoded at most once: once when one of the
\* side's outputs has been created or its TIFF is on the way from the temporary
\* file, never before that, and never when both existed at the start and
\* overwrite is off; and a TIFF step that does not decode has the image of the
\* JPEG step.
C10_DecodeAtMostOnce ==
    \A w \in Workers :
        Running(w) =>
            /\ \A s \in Sides :
                  /\ obs[w].decodes[s] =
                         IF \/ made(w) \cap side_targets(s) # { }
                            \/ pc[w] = "tiff_move" /\ frame[w].side = s
                            \/ frame[w].error.type = "IOError" /\ frame[w].side = s
                         THEN 1 ELSE 0
                  /\ (~force_overwrite /\ side_targets(s) \cap missing_at_start(w) = { })
                         => obs[w].decodes[s] = 0
            /\ (pc[w] = "tiff_make" /\ ~frame[w].skipped_jpg)
                   => frame[w].image[frame[w].side]
            /\ frame[w].error.line \notin { 180, 206 }

\* The JPEG step was skipped and the TIFF step has decoded the side itself.
C10_Witness ==
    \E w \in Workers :
        /\ pc[w] = "del"
        /\ frame[w].skipped_jpg
        /\ tiff_of(frame[w].side) \in made(w)
        /\ obs[w].decodes[frame[w].side] = 1

-----------------------------------------------------------------------------
\* process_message, two events at a time

\* the runs that wrote target t and uploaded it
uploading_writers(t) == { writes[t][i].run : i \in { j \in 1..Len(writes[t]) : writes[t][j].uploaded } }

\* C9: nothing keeps two runs from writing the same target: every run was let
\* in by a download verdict, the file on disk is the one the last writer
\* wrote, and the dataset holds one upload of the target for every run that
\* wrote it without having it among its local paths.
C9_LastWriterWinsEveryWriterUploads ==
    /\ \A w \in Workers : Running(w) => verdict[w].verdict = "download"
    /\ \A t \in Targets :
          /\ writes[t] # << >> => disk[t] = writes[t][Len(writes[t])].run
          /\ { u \in uploads : u.path = t /\ u.by >= 1 } =
                 { file_id(t, r) : r \in uploading_writers(t) }

\* Without overwrite, two runs have written the same target, the later one's
\* file is on disk, and the dataset holds both uploads.
C9_Witness ==
    /\ ~force_overwrite
    /\ \E t \in Targets :
          /\ Len(writes[t]) = 2
          /\ writes[t][1].run # writes[t][2].run
          /\ disk[t] = writes[t][2].run
          /\ Cardinality({ u \in uploads : u.path = t }) = 2

====
